---- MODULE Spec2Model ----
(***************************************************************************)
(* Model of the simulation engine of the trading-simulation dashboard:     *)
(* the HTTP handler POST of src/app/api/simulate/route.ts with its helper  *)
(* functions.  The Python engine embedded in src/lib/python-simulation.ts  *)
(* draws from numpy's generator: its paths are not part of this model, its *)
(* metric calculate_realized_volatility is, as a function of a series.     *)
(* The dashboard is modelled next to the handler: the store of             *)
(* src/lib/simulation-store.ts, the selection of dashboard-shell.tsx, the  *)
(* submission of the parameter form and the loading of the Pyodide engine  *)
(* by runPythonSimulation.                                                 *)
(*                                                                         *)
(* Numbers.  The code computes with IEEE doubles.  The model computes with *)
(* fixed-point numbers of resolution 1/Scale, extended with NaN and the    *)
(* two infinities, so that the propagation of NaN, the signs, the zero     *)
(* tests and the comparisons of the code are kept, while magnitudes are    *)
(* rounded to the grid.  A number is a record [k, v]: k = "fin" and v the  *)
(* value in units of 1/Scale, k = "nan", or k = "inf" with v the sign.     *)
(***************************************************************************)
EXTENDS Integers, Sequences, FiniteSets, TLC

\* ------------------------------------------------------------------------
\* Fixed-point numbers
\* ------------------------------------------------------------------------
Scale == 1000
MaxFin == 500000000              \* largest finite magnitude of the grid
MaxInt32 == 2147483647

Fin(n) == [k |-> "fin", v |-> n]
NaN == [k |-> "nan", v |-> 0]
PosInf == [k |-> "inf", v |-> 1]
NegInf == [k |-> "inf", v |-> -1]
Num(i) == Fin(i * Scale)         \* the integer i as a number

IsNaN(a) == a.k = "nan"
IsFin(a) == a.k = "fin"
IsInf(a) == a.k = "inf"
IAbs(n) == IF n < 0 THEN -n ELSE n
ISgn(n) == IF n < 0 THEN -1 ELSE IF n > 0 THEN 1 ELSE 0
Inf(s) == IF s < 0 THEN NegInf ELSE PosInf
Sat(n) == IF n > MaxFin THEN PosInf ELSE IF n < -MaxFin THEN NegInf ELSE Fin(n)
Sgn(a) == ISgn(a.v)

\* a === 0
IsZero(a) == IsFin(a) /\ a.v = 0

\* a < b, a >= b (false as soon as one side is NaN)
Lt(a, b) ==
  /\ ~IsNaN(a) /\ ~IsNaN(b)
  /\ IF IsFin(a) /\ IsFin(b) THEN a.v < b.v
     ELSE IF IsInf(a) /\ IsInf(b) THEN a.v < b.v
     ELSE IF IsInf(a) THEN a.v < 0
     ELSE b.v > 0
Ge(a, b) == ~IsNaN(a) /\ ~IsNaN(b) /\ ~Lt(a, b)

Neg(a) == IF IsNaN(a) THEN NaN ELSE [k |-> a.k, v |-> -a.v]

Add(a, b) ==
  IF IsNaN(a) \/ IsNaN(b) THEN NaN
  ELSE IF IsInf(a) /\ IsInf(b) THEN (IF a.v = b.v THEN a ELSE NaN)
  ELSE IF IsInf(a) THEN a
  ELSE IF IsInf(b) THEN b
  ELSE Sat(a.v + b.v)

Sub(a, b) == Add(a, Neg(b))

\* |x| * |y| / Scale on the grid, for 0 <= x, y <= MaxFin
MulMag(x, y) ==
  IF x = 0 \/ y = 0 THEN Fin(0)
  ELSE IF y <= MaxInt32 \div x THEN Sat((x * y) \div Scale)
  ELSE LET qx == x \div Scale
           rx == x % Scale
           qy == y \div Scale
           ry == y % Scale
       IN  IF qx > 0 /\ qy > (MaxFin \div Scale) \div qx THEN PosInf
           ELSE Sat(qx * qy * Scale + qx * ry + rx * qy + (rx * ry) \div Scale)

Mul(a, b) ==
  IF IsNaN(a) \/ IsNaN(b) THEN NaN
  ELSE IF IsInf(a) \/ IsInf(b)
       THEN (IF Sgn(a) = 0 \/ Sgn(b) = 0 THEN NaN ELSE Inf(Sgn(a) * Sgn(b)))
  ELSE LET Signed(m) == IF Sgn(a) * Sgn(b) < 0 THEN Neg(m) ELSE m
       IN  Signed(MulMag(IAbs(a.v), IAbs(b.v)))

\* |x| / |y| on the grid, for 0 <= x <= MaxFin, 0 < y <= MaxFin
DivMag(x, y) ==
  LET q == x \div y
      r == x % y
  IN  IF q > MaxFin \div Scale THEN PosInf
      ELSE IF r <= MaxInt32 \div Scale THEN Sat(q * Scale + (r * Scale) \div y)
      ELSE Sat(q * Scale + r \div (y \div Scale))

Div(a, b) ==
  IF IsNaN(a) \/ IsNaN(b) THEN NaN
  ELSE IF IsInf(a) THEN (IF IsInf(b) THEN NaN
                         ELSE Inf(a.v * (IF b.v < 0 THEN -1 ELSE 1)))
  ELSE IF IsInf(b) THEN Fin(0)
  ELSE IF b.v = 0 THEN (IF a.v = 0 THEN NaN ELSE Inf(Sgn(a)))
  ELSE LET Signed(m) == IF Sgn(a) * Sgn(b) < 0 THEN Neg(m) ELSE m
       IN  Signed(DivMag(IAbs(a.v), IAbs(b.v)))

\* Math.abs, Math.max
Abs(a) == IF IsNaN(a) THEN NaN ELSE [k |-> a.k, v |-> IAbs(a.v)]
Max(a, b) == IF IsNaN(a) \/ IsNaN(b) THEN NaN ELSE IF Lt(a, b) THEN b ELSE a

\* floor(sqrt(n)) for 0 <= n <= MaxInt32
ISqrt(n) ==
  LET B        == 216
      Le(r)    == r <= 46340 /\ r * r <= n
      Within(h) == CHOOSE r \in (h * B)..(h * B + B - 1) : Le(r) /\ ~Le(r + 1)
  IN  Within(CHOOSE k \in 0..214 : Le(k * B) /\ ~Le((k + 1) * B))

\* Math.sqrt
Sqrt(a) ==
  IF IsNaN(a) THEN NaN
  ELSE IF IsInf(a) THEN (IF a.v > 0 THEN PosInf ELSE NaN)
  ELSE IF a.v < 0 THEN NaN
  ELSE IF a.v <= MaxInt32 \div Scale THEN Fin(ISqrt(a.v * Scale))
  ELSE Fin(100 * ISqrt(a.v \div 10))

\* ln(2) in units of 1/(Scale * 1000)
Ln2Micro == 693147

\* ln of the mantissa m, Scale <= m < 2 * Scale: 2 * atanh((m-1)/(m+1)),
\* in units of 1/(100 * Scale)
LnMant(m) ==
  LET F  == 100 * Scale
      y  == ((m - Scale) * F) \div (m + Scale)
      y2 == (y * y) \div F
      t3 == (y * y2) \div F
      t5 == (t3 * y2) \div F
      t7 == (t5 * y2) \div F
      t9 == (t7 * y2) \div F
  IN  2 * (y + t3 \div 3 + t5 \div 5 + t7 \div 7 + t9 \div 9)

\* ln of x units, x > 0, in units: x = m * 2^e with Scale <= m < 2 * Scale
LnPos(x) ==
  LET Mant(k) == IF k >= 0 THEN x \div 2^k
                 ELSE IF x >= Scale THEN 0 ELSE x * 2^(-k)
      Normal(m) == Scale <= m /\ m < 2 * Scale
      With(e) == (e * (Ln2Micro \div 10) + LnMant(Mant(e)) + 50) \div 100
  IN  With(CHOOSE k \in -10..19 : Normal(Mant(k)))

\* Math.log
Ln(a) ==
  IF IsNaN(a) THEN NaN
  ELSE IF IsInf(a) THEN (IF a.v > 0 THEN PosInf ELSE NaN)
  ELSE IF a.v < 0 THEN NaN
  ELSE IF a.v = 0 THEN NegInf
  ELSE Fin(LnPos(a.v))

Pow2(e) == 2^e

\* exp of r/10 units for 0 <= r/10 < ln 2, in units (Taylor series)
ExpFrac(r) ==
  LET F  == 10 * Scale
      t2 == (r * r) \div F
      t3 == (t2 * r) \div F
      t4 == (t3 * r) \div F
      t5 == (t4 * r) \div F
      t6 == (t5 * r) \div F
      t7 == (t6 * r) \div F
  IN  (F + r + t2 \div 2 + t3 \div 6 + t4 \div 24 + t5 \div 120 + t6 \div 720
         + t7 \div 5040 + 5) \div 10

\* Math.exp
Exp(a) ==
  IF IsNaN(a) THEN NaN
  ELSE IF IsInf(a) THEN (IF a.v > 0 THEN PosInf ELSE Fin(0))
  ELSE IF a.v > 13000 THEN PosInf
  ELSE IF a.v < -13000 THEN Fin(0)
  ELSE LET Scaled(e, f) ==
             IF e >= 0 THEN Sat(f * Pow2(e)) ELSE Fin(f \div Pow2(-e))
           Frac(r) == ExpFrac(IF r < 0 THEN 0 ELSE r)
           With(e) == Scaled(e, Frac(a.v * 10 - (e * Ln2Micro) \div 100))
       IN  With((a.v * 1000) \div Ln2Micro)

\* cos of x thousandths of a turn, 0 <= x <= 250, in units (Taylor series)
CosQuarter(x) ==
  LET th == (x * 6283) \div 1000
      t2 == (th * th) \div Scale
      t4 == (t2 * t2) \div Scale
      t6 == (t4 * t2) \div Scale
      t8 == (t4 * t4) \div Scale
  IN  Scale - t2 \div 2 + t4 \div 24 - t6 \div 720 + t8 \div 40320

\* Math.cos(2.0 * Math.PI * v)
Cos2Pi(v) ==
  IF ~IsFin(v) THEN NaN
  ELSE LET Fold(f) == IF f <= 500 THEN f ELSE 1000 - f
           Quarter(g) == IF g <= 250 THEN CosQuarter(g) ELSE -CosQuarter(500 - g)
       IN  Fin(Quarter(Fold(((v.v % Scale) * 1000) \div Scale)))

\* Math.pow(x, y)
Pow(x, y) ==
  IF IsNaN(y) THEN NaN
  ELSE IF IsZero(y) THEN Num(1)
  ELSE IF IsNaN(x) THEN NaN
  ELSE IF IsInf(y)
       THEN (IF Lt(Abs(x), Num(1)) THEN (IF y.v > 0 THEN Fin(0) ELSE PosInf)
             ELSE IF Lt(Num(1), Abs(x)) THEN (IF y.v > 0 THEN PosInf ELSE Fin(0))
             ELSE NaN)
  ELSE IF IsZero(x) THEN (IF y.v > 0 THEN Fin(0) ELSE PosInf)
  ELSE IF Lt(x, Fin(0)) /\ y.v % Scale # 0 THEN NaN
  ELSE LET Signed(m) ==
             IF Lt(x, Fin(0)) /\ (y.v \div Scale) % 2 # 0 THEN Neg(m) ELSE m
       IN  Signed(Exp(Mul(y, Ln(Abs(x)))))

\* ------------------------------------------------------------------------
\* The seeded generator of POST (route.ts)
\* ------------------------------------------------------------------------
Modulus == 233280
Multiplier == 9301
Increment == 49297

\* (s * 9301 + 49297) % 233280 with the JavaScript remainder, whose sign is
\* the sign of the dividend; the product is split to stay within 32 bits
LcgNext(s) ==
  LET m == (((s * (Multiplier \div 2)) % Modulus) * 2 + s * (Multiplier % 2)
            + Increment) % Modulus
  IN  IF s < -(Increment \div Multiplier) /\ m # 0 THEN m - Modulus ELSE m

\* seedState / 233280 on the grid; a non-zero quotient stays non-zero
UniformValue(s) ==
  LET q == (IAbs(s) * Scale) \div Modulus
  IN  IF s = 0 THEN Fin(0) ELSE Fin(ISgn(s) * (IF q = 0 THEN 1 ELSE q))

\* The generator of one call: seed is seedState, draws counts the calls of
\* seededRandom made since the generator was created.
NewGenerator(randomSeed) == [seed |-> randomSeed, draws |-> 0]

seededRandom(g) ==
  LET Return(s) ==
        [g |-> [seed |-> s, draws |-> g.draws + 1], val |-> UniformValue(s)]
  IN  Return(LcgNext(g.seed))

\* while (u === 0) u = seededRandom()
RECURSIVE UniformNonZero(_)
UniformNonZero(g) ==
  LET While(r) == IF IsZero(r.val) THEN UniformNonZero(r.g) ELSE r
  IN  While(seededRandom(g))

\* Math.sqrt(-2.0 * Math.log(u)) * Math.cos(2.0 * Math.PI * v)
BoxMuller(u, v) == Mul(Sqrt(Mul(Num(-2), Ln(u))), Cos2Pi(v))

\* The product of two non-zero doubles of this size is never zero: on the
\* grid a variate that rounds to zero keeps one unit with the sign of the
\* cosine.
NonZeroVariate(z, v) ==
  IF ~IsZero(z) THEN z
  ELSE LET f == v.v % Scale
       IN  IF 4 * f <= Scale \/ 4 * f > 3 * Scale THEN Fin(1) ELSE Fin(-1)

seededNormalRandom(g) ==
  LET Return(u, v) ==
        [g |-> v.g, val |-> NonZeroVariate(BoxMuller(u.val, v.val), v.val)]
      After(u) == Return(u, UniformNonZero(u.g))
  IN  After(UniformNonZero(g))

\* randomGenerator(): the function handed to generateMultivariateNormal
CallGenerator(randomGenerator, g) ==
  IF randomGenerator = "seededRandom" THEN seededRandom(g)
  ELSE seededNormalRandom(g)

\* while (u === 0) u = randomGenerator()
RECURSIVE GeneratorNonZero(_, _)
GeneratorNonZero(randomGenerator, g) ==
  LET While(r) ==
        IF IsZero(r.val) THEN GeneratorNonZero(randomGenerator, r.g) ELSE r
  IN  While(CallGenerator(randomGenerator, g))

\* ------------------------------------------------------------------------
\* generateMultivariateNormal
\* ------------------------------------------------------------------------
\* CholeskyL without Math.max(0, ...) under the square root of the
\* diagonal: the variant that C16 must tell apart from the code.
CholeskyLUnclamped(n, variance, covariance) ==
  LET Fill(sqrtVar, sqrtCov, diag) ==
        [i \in 0..(n - 1) |-> [j \in 0..(n - 1) |->
           IF i = 0 /\ j = 0 THEN sqrtVar
           ELSE IF i >= 1 /\ j = 0 THEN sqrtCov
           ELSE IF i >= 1 /\ j = i THEN diag
           ELSE Fin(0)]]
  IN  Fill(Sqrt(variance), Sqrt(Max(Fin(0), covariance)),
           Sqrt(Sub(variance, covariance)))

\* The lower-triangular factor L (simplified Cholesky decomposition)
CholeskyL(n, variance, covariance) ==
  LET Fill(sqrtVar, sqrtCov, diag) ==
        [i \in 0..(n - 1) |-> [j \in 0..(n - 1) |->
           IF i = 0 /\ j = 0 THEN sqrtVar
           ELSE IF i >= 1 /\ j = 0 THEN sqrtCov
           ELSE IF i >= 1 /\ j = i THEN diag
           ELSE Fin(0)]]
  IN  Fill(Sqrt(variance), Sqrt(Max(Fin(0), covariance)),
           Sqrt(Max(Fin(0), Sub(variance, covariance))))

\* Lines 202-207: one entry of z, one transform over two non-zero values
\* of randomGenerator
IndependentNormal(randomGenerator, g) ==
  LET Return(u, v) == [g |-> v.g, val |-> BoxMuller(u.val, v.val)]
      After(u) == Return(u, GeneratorNonZero(randomGenerator, u.g))
  IN  After(GeneratorNonZero(randomGenerator, g))

\* The loop that fills z.  zs is the sequence built so far.
RECURSIVE IndependentNormals(_, _, _, _)
IndependentNormals(n, randomGenerator, g, zs) ==
  IF Len(zs) >= n THEN [g |-> g, val |-> zs]
  ELSE LET Push(z) ==
             IndependentNormals(n, randomGenerator, z.g, Append(zs, z.val))
       IN  Push(IndependentNormal(randomGenerator, g))

\* sum of L[i][j] * z[j] for j = 0..upTo, added in the order of the loop
RECURSIVE RowSum(_, _, _, _)
RowSum(L, z, i, upTo) ==
  IF upTo < 0 THEN Fin(0)
  ELSE Add(RowSum(L, z, i, upTo - 1), Mul(L[i][upTo], z[upTo + 1]))

\* Returns [ok, g, val]: ok = FALSE when the function throws (L[0] is
\* undefined when n < 1), g the generator after the draws, val the vector.
generateMultivariateNormal(n, mean, variance, covariance, randomGenerator, g) ==
  IF n < 1 THEN [ok |-> FALSE, g |-> g, val |-> <<>>]
  ELSE LET Transform(L, z) ==
             [ok |-> TRUE, g |-> z.g,
              val |-> [i \in 1..n |->
                         Add(mean, RowSum(L, z.val, i - 1, i - 1))]]
       IN  Transform(CholeskyL(n, variance, covariance),
                     IndependentNormals(n, randomGenerator, g, <<>>))

\* ------------------------------------------------------------------------
\* samplePath and the metrics
\* ------------------------------------------------------------------------
Min(a, b) == IF a < b THEN a ELSE b

\* samplePath with the loop running to i <= targetLength: the variant that
\* returns one element more than the target, which the bound of C11 must
\* tell apart from the code.
samplePathInclusive(path, targetLength) ==
  IF Len(path) <= targetLength THEN path
  ELSE IF targetLength <= 0 THEN <<>>
  ELSE [k \in 1..(targetLength + 1) |->
          path[Min(((k - 1) * Len(path)) \div targetLength, Len(path) - 1) + 1]]

\* samplePath without the early return of line 291: the variant that
\* resamples a path that is already short enough, which C26 must tell apart
\* from the code.
samplePathResampling(path, targetLength) ==
  IF targetLength <= 0 \/ Len(path) = 0 THEN <<>>
  ELSE [k \in 1..targetLength |->
          path[Min(((k - 1) * Len(path)) \div targetLength, Len(path) - 1) + 1]]

\* samplePath(path, targetLength); Math.floor(i * step) with
\* step = path.length / targetLength is the integer quotient
samplePath(path, targetLength) ==
  IF Len(path) <= targetLength THEN path
  ELSE IF targetLength <= 0 THEN <<>>
  ELSE [k \in 1..targetLength |->
          path[Min(((k - 1) * Len(path)) \div targetLength, Len(path) - 1) + 1]]

\* sum of f[i] for i in lo..hi (f a sequence of numbers)
RECURSIVE SumSeq(_, _, _)
SumSeq(f, lo, hi) ==
  IF lo > hi THEN Fin(0)
  ELSE IF lo = hi THEN f[lo]
  ELSE LET mid == (lo + hi) \div 2
       IN  Add(SumSeq(f, lo, mid), SumSeq(f, mid + 1, hi))

PeriodsPerYear == 252            \* dt = 1 / 252
SampleTarget == 500              \* Math.min(500, numObservations)

\* Math.pow(d, 2) kept at the resolution 1/Scale^2, and the square root
\* that brings such a number back to the grid: the squared deviations of
\* log-returns are far below one unit of the grid.
Square(d) ==
  IF IsNaN(d) THEN NaN
  ELSE IF IsInf(d) THEN PosInf
  ELSE IF IAbs(d.v) > 22000 THEN PosInf
  ELSE Fin(d.v * d.v)
SqrtOfSquares(a) ==
  IF IsNaN(a) THEN NaN
  ELSE IF IsInf(a) THEN (IF a.v > 0 THEN PosInf ELSE NaN)
  ELSE IF a.v < 0 THEN NaN
  ELSE Fin(ISqrt(a.v))

calculateRealizedVolatilityFromLogPrices(logPrices) ==
  LET n == IF Len(logPrices) = 0 THEN 0 ELSE Len(logPrices) - 1
      Variance(logReturns, mean) ==
        Div(SumSeq([i \in 1..n |-> Square(Sub(logReturns[i], mean))], 1, n),
            Num(n - 1))
      StdDev(logReturns) ==
        SqrtOfSquares(Variance(logReturns,
                               Div(SumSeq(logReturns, 1, n), Num(n))))
  IN  Mul(StdDev([i \in 1..n |-> Sub(logPrices[i + 1], logPrices[i])]),
          Sqrt(Num(PeriodsPerYear)))

\* The body of prices.map(...) that yields one entry of effectiveTrends;
\* 1 / timeInYears is computed as 252 / (length - 1).  An empty path reads
\* undefined / undefined.
EffectiveTrend(pricePath) ==
  IF Len(pricePath) = 0 THEN NaN
  ELSE LET totalReturn == Sub(Div(pricePath[Len(pricePath)], pricePath[1]), Num(1))
           exponent    == Div(Num(PeriodsPerYear), Num(Len(pricePath) - 1))
       IN  Sub(Pow(Add(Num(1), totalReturn), exponent), Num(1))

\* ------------------------------------------------------------------------
\* One price path (lines 87-128 of route.ts)
\* ------------------------------------------------------------------------
PriceFloor == Fin(Scale \div 100)          \* 0.01

\* Lines 88-90: the initial price of a currency and its logarithm
InitialPrice(p, g) ==
  LET Return(u) ==
        [g |-> u.g, val |-> Mul(p.basePrice, Add(Fin(Scale \div 2), u.val))]
  IN  Return(seededRandom(g))

\* Lines 96-122: one iteration of the loop over t.  lastLogPrice is
\* logPricePath[t - 1]; ev = [on, start, duration, shock] is the extreme
\* event of the run for this currency.  Returns the generator, the two
\* values pushed on logPricePath and pricePath, and whether the branch of
\* line 109 was taken, with its eventProgress.
PathStep(t, g, lastLogPrice, mu, sigma, ev) ==
  LET drift    == Div(Sub(mu, Mul(Fin(Scale \div 2), Mul(sigma, sigma))),
                      Num(PeriodsPerYear))
      inEvent  == ev.on /\ t >= ev.start /\ t < ev.start + ev.duration
      progress == Div(Num(t - ev.start), Num(ev.duration))
      decay    == Exp(Mul(Num(-3), progress))
      Shocked(logReturn) ==
        IF inEvent
        THEN Add(logReturn, Div(Mul(ev.shock, decay), Num(PeriodsPerYear)))
        ELSE logReturn
      Push(z, newLogPrice) ==
        [g |-> z.g, newLogPrice |-> newLogPrice,
         price |-> Max(Exp(newLogPrice), PriceFloor),
         inEvent |-> inEvent, progress |-> progress]
      Step(z) ==
        LET dW        == Div(z.val, Sqrt(Num(PeriodsPerYear)))
            diffusion == Mul(sigma, dW)
        IN  Push(z, Add(lastLogPrice, Shocked(Add(drift, diffusion))))
  IN  Step(seededNormalRandom(g))

\* ------------------------------------------------------------------------
\* The steps of one iteration of the loop over sim (lines 46-149)
\* ------------------------------------------------------------------------
Null == <<>>
Some(i) == <<i>>

\* Lines 48-54: trendComponents
TrendComponents(p, g) ==
  generateMultivariateNormal(p.numCurrencies, Fin(0), p.trendVariance,
                             p.trendCovariance, "seededNormalRandom", g)

\* Lines 57-63: volatilityComponents, before and after .map(Math.abs)
VolatilityRaw(p, g) ==
  LET Around(bv) ==
        generateMultivariateNormal(p.numCurrencies, bv,
          Mul(Mul(bv, bv), Fin(Scale \div 10)),
          Div(p.volatilityCovariance, Num(10000)), "seededNormalRandom", g)
  IN  Around(Div(p.baseVolatility, Num(100)))

VolatilityComponents(p, g) ==
  LET MapAbs(raw) ==
        [ok |-> raw.ok, g |-> raw.g,
         val |-> [i \in 1..Len(raw.val) |-> Abs(raw.val[i])]]
  IN  MapAbs(VolatilityRaw(p, g))

\* Lines 66-69: extremeEvent and extremeEventStart; the second draw is made
\* only when the first one decides for an event
ExtremeEventTiming(p, g) ==
  LET Begin(u2) ==
        [g |-> u2.g, extremeEvent |-> TRUE,
         extremeEventStart |->
           (u2.val.v * (p.numObservations - p.extremeEventDuration))
              \div Scale]
      Decide(u1) ==
        IF Lt(u1.val, p.extremeEventProbability)
        THEN Begin(seededRandom(u1.g))
        ELSE [g |-> u1.g, extremeEvent |-> FALSE, extremeEventStart |-> -1]
  IN  Decide(seededRandom(g))

\* Lines 73-81: extremeEventShocks
ExtremeEventShocks(p, g) ==
  generateMultivariateNormal(p.numCurrencies, Fin(-(Scale \div 10)),
    Div(p.extremeEventVariance, Num(10000)),
    Div(p.extremeEventCovariance, Num(10000)), "seededNormalRandom", g)

\* SimulationData with effectiveTrends computed for the first currency
\* alone, as realizedVolatility is: the variant that the length invariant
\* of C10 must tell apart from the code.
SimulationDataFirstAssetOnly(p, prices, logPrices, trend, vol, extremeEvent, extremeEventStart) ==
  LET Last(steps) == IF Len(steps) = 0 THEN Null ELSE Some(steps[Len(steps)])
  IN  [prices |-> prices,
       trends |-> trend,
       volatilities |-> vol,
       extremeEvent |-> extremeEvent,
       extremeEventIndex |->
         IF extremeEvent THEN Some(extremeEventStart) ELSE Null,
       realizedVolatility |->
         Mul(calculateRealizedVolatilityFromLogPrices(logPrices[1]), Num(100)),
       effectiveTrends |-> <<EffectiveTrend(prices[1])>>,
       metricsLength |-> Len(logPrices[1]),
       metricsLastStep |->
         Last(samplePath([t \in 1..p.numObservations |-> t - 1],
                         Min(SampleTarget, p.numObservations)))]

\* Lines 131-148: the record pushed on simulations.  metricsLength and
\* metricsLastStep record the argument that the metrics receive: its length
\* and the time step of its last element.
SimulationData(p, prices, logPrices, trend, vol, extremeEvent, extremeEventStart) ==
  LET Last(steps) == IF Len(steps) = 0 THEN Null ELSE Some(steps[Len(steps)])
  IN  [prices |-> prices,
       trends |-> trend,
       volatilities |-> vol,
       extremeEvent |-> extremeEvent,
       extremeEventIndex |->
         IF extremeEvent THEN Some(extremeEventStart) ELSE Null,
       realizedVolatility |->
         Mul(calculateRealizedVolatilityFromLogPrices(logPrices[1]), Num(100)),
       effectiveTrends |->
         [c \in 1..Len(prices) |-> EffectiveTrend(prices[c])],
       metricsLength |-> Len(logPrices[1]),
       metricsLastStep |->
         Last(samplePath([t \in 1..p.numObservations |-> t - 1],
                         Min(SampleTarget, p.numObservations)))]

\* ------------------------------------------------------------------------
\* The requests
\* ------------------------------------------------------------------------
MaxSims == 2                     \* numSimulations ranges over 1..MaxSims
MaxCurrencies == 2               \* numCurrencies ranges over 0..MaxCurrencies
MaxObservations == 4             \* numObservations ranges over 1..MaxObservations

Half == Fin(Scale \div 2)

BaseParams ==
  [randomSeed |-> 11, numSimulations |-> 1, numObservations |-> 3,
   numCurrencies |-> 1, basePrice |-> Num(100), transactionFee |-> Fin(1),
   trendVariance |-> Fin(40), trendCovariance |-> Fin(10),
   baseVolatility |-> Num(20), volatilityCovariance |-> Num(10),
   extremeEventProbability |-> Half, extremeEventVariance |-> Num(500),
   extremeEventCovariance |-> Num(450), extremeEventDuration |-> 1]

\* 22643 is the state that steps to 0; -6 is the largest seed whose first
\* state is negative
Seeds == {-6, 11, 16, 17, 42, 22643}

\* Three currencies with trendCovariance = trendVariance: the factor L has
\* a zero diagonal below its first row
Correlated ==
  {[BaseParams EXCEPT !.randomSeed = s, !.numCurrencies = 3,
                      !.trendCovariance = BaseParams.trendVariance] :
      s \in {11, 17, 42}}

\* Ten observations with no variance of the trend, no volatility and no
\* extreme event
Degenerate ==
  {[BaseParams EXCEPT !.randomSeed = s, !.numObservations = 10,
                      !.trendVariance = Fin(0), !.trendCovariance = Fin(0),
                      !.baseVolatility = Fin(0),
                      !.extremeEventProbability = Fin(0)] :
      s \in {17, 42}}

\* Two currencies with trendCovariance > trendVariance
Inverted ==
  {[BaseParams EXCEPT !.randomSeed = s, !.numCurrencies = 2,
                      !.trendCovariance = Fin(50)] :
      s \in {11, 17}}

\* A base price of 0.01, whose paths run below the floor of line 121
Penny ==
  {[BaseParams EXCEPT !.randomSeed = s, !.basePrice = Fin(Scale \div 100)] :
      s \in {11, 17}}

\* The bodies a client posts: the base parameters with one or two fields
\* changed.  An extremeEventProbability of NaN stands for a missing field
\* (undefined).
Inputs ==
  {[BaseParams EXCEPT !.randomSeed = s, !.numSimulations = k] :
      s \in Seeds, k \in 1..MaxSims}
  \cup {[BaseParams EXCEPT !.randomSeed = s, !.numCurrencies = n] :
      s \in {-6, 11}, n \in 0..MaxCurrencies}
  \cup {[BaseParams EXCEPT !.randomSeed = s, !.numObservations = o,
                           !.extremeEventDuration = d] :
      s \in {-6, 11}, o \in 1..MaxObservations, d \in {1, 3}}
  \cup {[BaseParams EXCEPT !.extremeEventProbability = q] :
      q \in {NaN, Fin(0), Num(1), Fin(3 * (Scale \div 2))}}
  \cup Correlated \cup Degenerate \cup Inverted \cup Penny

\* The ranges of formSchema, read on the fields of the request body
MinObservations == 100           \* nObservations: .min(100)
RangeValidated(p) ==
  LET In(x, lo, hi) == IsFin(x) /\ lo <= x.v /\ x.v <= hi
  IN  /\ p.numSimulations >= 1 /\ p.numSimulations <= 1000
      /\ p.numObservations >= MinObservations /\ p.numObservations <= 1000000
      /\ IsFin(p.basePrice) /\ p.basePrice.v >= Scale
      /\ p.numCurrencies >= 1 /\ p.numCurrencies <= 20
      /\ In(p.transactionFee, 0, Scale)
      /\ In(p.trendVariance, 0, Scale)
      /\ In(p.trendCovariance, 0, Scale)
      /\ In(p.baseVolatility, Scale \div 10, 20 * Scale)
      /\ In(p.volatilityCovariance, Scale \div 10, 10 * Scale)
      /\ In(p.extremeEventProbability, 0, Scale)
      /\ In(p.extremeEventVariance, Scale, 10000 * Scale)
      /\ In(p.extremeEventCovariance, Scale, 10000 * Scale)
      /\ p.extremeEventDuration >= 1 /\ p.extremeEventDuration <= 100000

\* Bodies within the ranges of the form: the shortest series the form
\* accepts, and the shortest series that samplePath shortens.  The body with
\* no currency is the one request of this set that the form would refuse.
FormInputs ==
  {[BaseParams EXCEPT !.randomSeed = s, !.numObservations = MinObservations] :
      s \in {-6, 17, 42}}
  \cup {[BaseParams EXCEPT !.randomSeed = 17,
                           !.numObservations = SampleTarget + 1]}
  \cup {[BaseParams EXCEPT !.numCurrencies = 0]}

Entry(p, r) == [params |-> p, response |-> r]

VARIABLES
  inputs,        \* the request bodies the clients of this run may post
  pc,            \* "idle": no request in the handler; else the next step
  params,        \* await request.json() of the request in the handler
  seedState,     \* the generator state of the request in the handler
  draws,         \* the number of calls of seededRandom in this request
  sim,           \* the loop index
  trendComponents, volatilityComponents,
  extremeEvent, extremeEventStart, extremeEventShocks,
  prices, logPrices,   \* the sampled paths of the currencies done so far
  t,             \* the loop index of the path under construction
  pricePath, logPricePath,   \* the path under construction
  shocked,       \* the steps of this path that took the branch of line 109
  correlatedCalls,   \* the calls of generateMultivariateNormal in this run
  simulations,   \* the runs pushed so far
  response,      \* <<>> or the response of the last request
  firstCall,     \* <<>> or the parameters and response of the first request
  otherCalls,    \* a request with other parameters followed the first one
  results,       \* the store: Null or <<the results of the last good run>>
  selectedSimulation,   \* useState(0) of DashboardShell
  isRunning,     \* useState(false) of SimulationSidebar
  submitDisabled,       \* the disabled attribute of the rendered button
  view,          \* what SimulationResults rendered last
  pyodideInstance,      \* the module variable: 0 (null) or an engine
  engines,       \* the engines that window.loadPyodide has created
  calls          \* the calls of runPythonSimulation, by caller

run == <<trendComponents, volatilityComponents, extremeEvent,
         extremeEventStart, extremeEventShocks, prices, logPrices,
         t, pricePath, logPricePath, shocked, correlatedCalls>>
server == <<inputs, pc, params, seedState, draws, sim, run, simulations,
            response, firstCall, otherCalls>>
dash == <<results, selectedSimulation, isRunning, submitDisabled, view,
          pyodideInstance, engines, calls>>
vars == <<server, dash>>

Generator == [seed |-> seedState, draws |-> draws]

\* Caller 0 is onSubmit of the parameter form; callers 1..MaxClients are
\* other clients of the exported function runPythonSimulation
MaxClients == 2
MaxRuns == 2                     \* nSimulations of the form: 1..MaxRuns
MaxEngines == 3                  \* engines that can be created in a behaviour
Form == 0
Clients == 1..MaxClients
IdleCall == [pc |-> "idle", values |-> Null, pyodide |-> 0, result |-> Null]

\* The state of the server before the first request; bodies are the
\* requests that its clients may post
Start(bodies) ==
  /\ inputs = bodies
  /\ pc = "idle"
  /\ params = BaseParams
  /\ seedState = 0
  /\ draws = 0
  /\ sim = 0
  /\ trendComponents = <<>>
  /\ volatilityComponents = <<>>
  /\ extremeEvent = FALSE
  /\ extremeEventStart = -1
  /\ extremeEventShocks = <<>>
  /\ prices = <<>>
  /\ logPrices = <<>>
  /\ t = 0
  /\ pricePath = <<>>
  /\ logPricePath = <<>>
  /\ shocked = {}
  /\ correlatedCalls = 0
  /\ simulations = <<>>
  /\ response = <<>>
  /\ firstCall = <<>>
  /\ otherCalls = FALSE
  /\ results = Null
  /\ selectedSimulation = 0
  /\ isRunning = FALSE
  /\ submitDisabled = FALSE
  /\ view = "empty"
  /\ pyodideInstance = 0
  /\ engines = 0
  /\ calls = [c \in 0..MaxClients |-> IdleCall]

Init == Start(Inputs)
InitForm == Start(FormInputs)

\* PostEnter with seedState declared outside the handler and seeded by the
\* first request alone: the variant in which generator state survives from
\* one call to the next, which C1 must tell apart from the code.
PostEnterSharedGenerator(p) ==
  /\ pc = "idle"
  /\ pc' = "loop"
  /\ params' = p
  /\ seedState' = IF firstCall = <<>> THEN p.randomSeed ELSE seedState
  /\ draws' = 0
  /\ sim' = 0
  /\ trendComponents' = <<>>
  /\ volatilityComponents' = <<>>
  /\ extremeEvent' = FALSE
  /\ extremeEventStart' = -1
  /\ extremeEventShocks' = <<>>
  /\ prices' = <<>>
  /\ logPrices' = <<>>
  /\ t' = 0
  /\ pricePath' = <<>>
  /\ logPricePath' = <<>>
  /\ shocked' = {}
  /\ correlatedCalls' = 0
  /\ simulations' = <<>>
  /\ response' = <<>>
  /\ otherCalls' = (otherCalls \/ (firstCall # <<>> /\ firstCall[1].params # p))
  /\ UNCHANGED <<dash, inputs, firstCall>>

\* Lines 4-29: the body is read and the generator is created from randomSeed
PostEnter(p) ==
  /\ pc = "idle"
  /\ pc' = "loop"
  /\ params' = p
  /\ seedState' = p.randomSeed
  /\ draws' = 0
  /\ sim' = 0
  /\ trendComponents' = <<>>
  /\ volatilityComponents' = <<>>
  /\ extremeEvent' = FALSE
  /\ extremeEventStart' = -1
  /\ extremeEventShocks' = <<>>
  /\ prices' = <<>>
  /\ logPrices' = <<>>
  /\ t' = 0
  /\ pricePath' = <<>>
  /\ logPricePath' = <<>>
  /\ shocked' = {}
  /\ correlatedCalls' = 0
  /\ simulations' = <<>>
  /\ response' = <<>>
  /\ otherCalls' = (otherCalls \/ (firstCall # <<>> /\ firstCall[1].params # p))
  /\ UNCHANGED <<dash, inputs, firstCall>>

\* Lines 46-54: the loop condition holds, trendComponents is generated
GenerateTrend ==
  /\ pc = "loop"
  /\ sim < params.numSimulations
  /\ \E r \in {TrendComponents(params, Generator)} :
         /\ r.ok
         /\ trendComponents' = r.val
         /\ seedState' = r.g.seed
         /\ draws' = r.g.draws
  /\ correlatedCalls' = 1
  /\ pc' = "volatility"
  /\ UNCHANGED <<dash, inputs, params, sim, volatilityComponents, extremeEvent,
                 extremeEventStart, extremeEventShocks, prices, logPrices,
                 t, pricePath, logPricePath, simulations, response, firstCall,
                 otherCalls, shocked>>

\* Lines 57-63
GenerateVolatility ==
  /\ pc = "volatility"
  /\ \E r \in {VolatilityComponents(params, Generator)} :
         /\ volatilityComponents' = r.val
         /\ seedState' = r.g.seed
         /\ draws' = r.g.draws
  /\ correlatedCalls' = correlatedCalls + 1
  /\ pc' = "event"
  /\ UNCHANGED <<dash, inputs, params, sim, trendComponents, extremeEvent,
                 extremeEventStart, extremeEventShocks, prices, logPrices,
                 t, pricePath, logPricePath, simulations, response, firstCall,
                 otherCalls, shocked>>

\* DetermineEvent with the shock vector generated whether or not the draw
\* decides for an event: the variant that C21 must tell apart from the code.
DetermineEventAlwaysShocks ==
  /\ pc = "event"
  /\ \E r \in {ExtremeEventTiming(params, Generator)} :
         /\ extremeEvent' = r.extremeEvent
         /\ extremeEventStart' = r.extremeEventStart
         /\ seedState' = r.g.seed
         /\ draws' = r.g.draws
         /\ pc' = "shocks"
  /\ extremeEventShocks' = <<>>
  /\ prices' = <<>>
  /\ logPrices' = <<>>
  /\ UNCHANGED <<dash, inputs, params, sim, trendComponents, volatilityComponents,
                 t, pricePath, logPricePath, simulations, response, firstCall,
                 otherCalls, shocked, correlatedCalls>>

\* Lines 66-72
DetermineEvent ==
  /\ pc = "event"
  /\ \E r \in {ExtremeEventTiming(params, Generator)} :
         /\ extremeEvent' = r.extremeEvent
         /\ extremeEventStart' = r.extremeEventStart
         /\ seedState' = r.g.seed
         /\ draws' = r.g.draws
         /\ pc' = IF r.extremeEvent THEN "shocks" ELSE "currency"
  /\ extremeEventShocks' = <<>>
  /\ prices' = <<>>
  /\ logPrices' = <<>>
  /\ UNCHANGED <<dash, inputs, params, sim, trendComponents, volatilityComponents,
                 t, pricePath, logPricePath, simulations, response, firstCall,
                 otherCalls, shocked, correlatedCalls>>

\* Lines 73-81
GenerateShocks ==
  /\ pc = "shocks"
  /\ \E r \in {ExtremeEventShocks(params, Generator)} :
         /\ extremeEventShocks' = r.val
         /\ seedState' = r.g.seed
         /\ draws' = r.g.draws
  /\ correlatedCalls' = correlatedCalls + 1
  /\ pc' = "currency"
  /\ UNCHANGED <<dash, inputs, params, sim, trendComponents, volatilityComponents,
                 extremeEvent, extremeEventStart, prices, logPrices,
                 t, pricePath, logPricePath, simulations, response, firstCall,
                 otherCalls, shocked>>

\* Lines 87-94: the loop over c goes on, the path starts at its initial price
BeginPath ==
  /\ pc = "currency"
  /\ Len(prices) < params.numCurrencies
  /\ \E r \in {InitialPrice(params, Generator)} :
         /\ seedState' = r.g.seed
         /\ draws' = r.g.draws
         /\ pricePath' = <<r.val>>
         /\ logPricePath' = <<Ln(r.val)>>
  /\ shocked' = {}
  /\ t' = 1
  /\ pc' = "step"
  /\ UNCHANGED <<dash, inputs, params, sim, trendComponents, volatilityComponents,
                 extremeEvent, extremeEventStart, extremeEventShocks, prices,
                 logPrices, simulations, response, firstCall, otherCalls,
                 correlatedCalls>>

\* The extreme event as the loop over t sees it for currency c
EventOf(c) ==
  [on |-> extremeEvent, start |-> extremeEventStart,
   duration |-> params.extremeEventDuration,
   shock |-> IF extremeEvent THEN extremeEventShocks[c] ELSE Fin(0)]

\* Lines 96-122: one iteration of the loop over t
PathIteration ==
  /\ pc = "step"
  /\ t < params.numObservations
  /\ \E r \in {PathStep(t, Generator, logPricePath[t],
                         trendComponents[Len(prices) + 1],
                         volatilityComponents[Len(prices) + 1],
                         EventOf(Len(prices) + 1))} :
         /\ seedState' = r.g.seed
         /\ draws' = r.g.draws
         /\ logPricePath' = Append(logPricePath, r.newLogPrice)
         /\ pricePath' = Append(pricePath, r.price)
         /\ shocked' = IF r.inEvent
                        THEN shocked \cup {[t |-> t, progress |-> r.progress]}
                        ELSE shocked
  /\ t' = t + 1
  /\ UNCHANGED <<dash, inputs, pc, params, sim, trendComponents,
                 volatilityComponents, extremeEvent, extremeEventStart,
                 extremeEventShocks, prices, logPrices, simulations,
                 response, firstCall, otherCalls, correlatedCalls>>

\* Lines 124-128: the loop over t is over, the sampled paths are pushed
EndPath ==
  /\ pc = "step"
  /\ t >= params.numObservations
  /\ \E target \in {Min(SampleTarget, params.numObservations)} :
         /\ prices' = Append(prices, samplePath(pricePath, target))
         /\ logPrices' = Append(logPrices, samplePath(logPricePath, target))
  /\ pricePath' = <<>>
  /\ logPricePath' = <<>>
  /\ pc' = "currency"
  /\ UNCHANGED <<dash, inputs, params, seedState, draws, sim, trendComponents,
                 volatilityComponents, extremeEvent, extremeEventStart,
                 extremeEventShocks, t, simulations, response, firstCall,
                 otherCalls, shocked, correlatedCalls>>

\* PushSimulation with the generator seeded again for the next run: the
\* variant in which every run starts its own stream, which C2 must tell
\* apart from the code.
PushSimulationReseeding ==
  /\ pc = "currency"
  /\ Len(prices) >= params.numCurrencies
  /\ simulations' = Append(simulations,
        SimulationData(params, prices, logPrices, trendComponents,
                       volatilityComponents, extremeEvent, extremeEventStart))
  /\ sim' = sim + 1
  /\ pc' = "loop"
  /\ seedState' = params.randomSeed
  /\ UNCHANGED <<dash, inputs, params, draws, run, response, firstCall, otherCalls>>

\* PushSimulation with unshift in place of push: the variant that returns
\* the runs in reverse order, which C13 must tell apart from the code.
PushSimulationPrepend ==
  /\ pc = "currency"
  /\ Len(prices) >= params.numCurrencies
  /\ simulations' =
        <<SimulationData(params, prices, logPrices, trendComponents,
                         volatilityComponents, extremeEvent,
                         extremeEventStart)>> \o simulations
  /\ sim' = sim + 1
  /\ pc' = "loop"
  /\ UNCHANGED <<dash, inputs, params, seedState, draws, run, response, firstCall, otherCalls>>

\* Lines 130-149: the metrics are computed and the run is pushed
PushSimulation ==
  /\ pc = "currency"
  /\ Len(prices) >= params.numCurrencies
  /\ simulations' = Append(simulations,
        SimulationData(params, prices, logPrices, trendComponents,
                       volatilityComponents, extremeEvent, extremeEventStart))
  /\ sim' = sim + 1
  /\ pc' = "loop"
  /\ UNCHANGED <<dash, inputs, params, seedState, draws, run, response, firstCall, otherCalls>>

Respond(r) ==
  /\ pc' = "idle"
  /\ response' = <<r>>
  /\ firstCall' = IF firstCall = <<>> THEN <<Entry(params, r)>> ELSE firstCall
  /\ UNCHANGED <<dash, inputs, params, seedState, draws, sim, run, simulations,
                 otherCalls>>

\* PostThrow with a catch block that answers with the runs pushed so far
\* as if the loop had ended: the variant that hands out a partial result,
\* which C12 must tell apart from the code.
PostThrowPartial ==
  /\ pc = "loop"
  /\ sim < params.numSimulations
  /\ ~TrendComponents(params, Generator).ok
  /\ Respond([status |-> 200, error |-> "",
              simulations |-> simulations, params |-> <<params>>])

\* Lines 157-160: generateMultivariateNormal throws, the handler answers
\* with status 500
PostThrow ==
  /\ pc = "loop"
  /\ sim < params.numSimulations
  /\ ~TrendComponents(params, Generator).ok
  /\ Respond([status |-> 500, error |-> "Failed to run simulation",
              simulations |-> <<>>, params |-> <<>>])

\* Lines 151-156: the loop is over, the handler answers with the results
PostReturn ==
  /\ pc = "loop"
  /\ sim >= params.numSimulations
  /\ Respond([status |-> 200, error |-> "",
              simulations |-> simulations, params |-> <<params>>])

Next ==
  \/ \E p \in inputs : PostEnter(p)
  \/ GenerateTrend
  \/ GenerateVolatility
  \/ DetermineEvent
  \/ GenerateShocks
  \/ BeginPath
  \/ PathIteration
  \/ EndPath
  \/ PushSimulation
  \/ PostThrow
  \/ PostReturn

Spec == Init /\ [][Next]_vars

\* The same server with clients that post the bodies of FormInputs
SpecForm == InitForm /\ [][Next]_vars

\* ------------------------------------------------------------------------
\* The dashboard: parameter form, store, selection and Pyodide engine
\* ------------------------------------------------------------------------

\* Values that pass formSchema, reduced to the fields that decide the
\* number of runs and whether the script raises: the shortest series of the
\* form with an event of 1 step or of as many steps as the series
FormValues ==
  {[nSimulations |-> n, nObservations |-> MinObservations,
    extremeEventDuration |-> d, extremeEventProbability |-> q] :
      n \in 1..MaxRuns, d \in {1, MinObservations},
      q \in {Fin(0), Half, Num(1)}}

\* python-simulation.ts line 141: np.random.randint(0, n_observations -
\* extreme_event_duration) raises ValueError when its bound is <= 0.  The
\* call is made in a run whose draw of line 136 is below the probability;
\* the draw is in [0, 1) and is not modelled, so that for a probability
\* strictly between 0 and 1 both outcomes are possible.
RaisesInEvent(v) == v.nObservations - v.extremeEventDuration <= 0
ScriptCanRaise(v) ==
  RaisesInEvent(v) /\ Lt(Fin(0), v.extremeEventProbability)
ScriptCanReturn(v) ==
  ~(RaisesInEvent(v) /\ Ge(v.extremeEventProbability, Num(1)))

\* Lines 208-270: simulation_results, one run per iteration of the loop
\* over sim and the parameters
SimulationResult(v) ==
  [simulations |-> [i \in 1..v.nSimulations |-> [sim |-> i - 1]],
   params |-> v]

\* simulation-results.tsx lines 160-226: the body of SimulationResults.
\* Without results the placeholder is rendered; else simData =
\* results.simulations[selectedSimulation] is read and the summary reads
\* simData.realizedVolatility, which throws when simData is undefined.
Render(stored, selected) ==
  IF stored = Null THEN "empty"
  ELSE IF selected >= 0 /\ selected < Len(stored[1].simulations)
       THEN "summary"
       ELSE "error"

\* Lines 23-26 and 49: runPythonSimulation is entered by caller c and
\* loadPyodide tests the cached instance
Enter(c, v) ==
  [calls EXCEPT ![c] =
     IF pyodideInstance # 0
     THEN [pc |-> "ready", values |-> Some(v), pyodide |-> pyodideInstance,
           result |-> Null]
     ELSE [pc |-> "loading", values |-> Some(v), pyodide |-> 0,
           result |-> Null]]

\* A client other than the form calls runPythonSimulation
Call(c, v) ==
  /\ calls[c].pc = "idle"
  /\ calls' = Enter(c, v)
  /\ UNCHANGED <<server, results, selectedSimulation, isRunning,
                 submitDisabled, view, pyodideInstance, engines>>

\* Lines 35-37: await window.loadPyodide(...) resolves with a new engine
LoadEngine(c) ==
  /\ calls[c].pc = "loading"
  /\ engines < MaxEngines
  /\ engines' = engines + 1
  /\ calls' = [calls EXCEPT ![c].pc = "packages", ![c].pyodide = engines + 1]
  /\ UNCHANGED <<server, results, selectedSimulation, isRunning,
                 submitDisabled, view, pyodideInstance>>

\* Lines 40-44: await pyodide.loadPackage(...) resolves, the engine is
\* cached and returned
LoadPackages(c) ==
  /\ calls[c].pc = "packages"
  /\ pyodideInstance' = calls[c].pyodide
  /\ calls' = [calls EXCEPT ![c].pc = "ready"]
  /\ UNCHANGED <<server, results, selectedSimulation, isRunning,
                 submitDisabled, view, engines>>

\* Lines 271-274: one of the two awaits of loadPyodide rejects (the engine
\* or a package cannot be fetched); the catch block throws a new Error
LoadFails(c) ==
  /\ calls[c].pc \in {"loading", "packages"}
  /\ calls' = [calls EXCEPT ![c].pc = "rejected"]
  /\ UNCHANGED <<server, results, selectedSimulation, isRunning,
                 submitDisabled, view, pyodideInstance, engines>>

\* Lines 51-270: the parameters are set, the script runs to its end and
\* simulation_results is returned
RunScript(c) ==
  /\ calls[c].pc = "ready"
  /\ ScriptCanReturn(calls[c].values[1])
  /\ calls' = [calls EXCEPT ![c].pc = "resolved",
                            ![c].result =
                               Some(SimulationResult(calls[c].values[1]))]
  /\ UNCHANGED <<server, results, selectedSimulation, isRunning,
                 submitDisabled, view, pyodideInstance, engines>>

\* Lines 271-274: the script raises, the catch block throws a new Error
ScriptFails(c) ==
  /\ calls[c].pc = "ready"
  /\ ScriptCanRaise(calls[c].values[1])
  /\ calls' = [calls EXCEPT ![c].pc = "rejected"]
  /\ UNCHANGED <<server, results, selectedSimulation, isRunning,
                 submitDisabled, view, pyodideInstance, engines>>

\* The client takes the result or the error of its call
Return(c) ==
  /\ calls[c].pc \in {"resolved", "rejected"}
  /\ calls' = [calls EXCEPT ![c] = IdleCall]
  /\ UNCHANGED <<server, results, selectedSimulation, isRunning,
                 submitDisabled, view, pyodideInstance, engines>>

\* part_003 lines 81-85 and 435-439: the form is submitted through its
\* button, onSubmit sets isRunning and calls runPythonSimulation; the
\* sidebar is rendered again with the button disabled
Submit(v) ==
  /\ view # "error"
  /\ ~submitDisabled
  /\ calls[Form].pc = "idle"
  /\ isRunning' = TRUE
  /\ submitDisabled' = isRunning'
  /\ calls' = Enter(Form, v)
  /\ UNCHANGED <<server, results, selectedSimulation, view, pyodideInstance,
                 engines>>

\* part_003 lines 85-92 and simulation-store.ts line 15: the await of
\* onSubmit resolves, the results are stored, finally resets isRunning;
\* SimulationResults and the sidebar are rendered again
OnSubmitResolved ==
  /\ calls[Form].pc = "resolved"
  /\ results' = calls[Form].result
  /\ isRunning' = FALSE
  /\ submitDisabled' = isRunning'
  /\ view' = Render(results', selectedSimulation)
  /\ calls' = [calls EXCEPT ![Form] = IdleCall]
  /\ UNCHANGED <<server, selectedSimulation, pyodideInstance, engines>>

\* OnSubmitRejected with a catch block that clears the store
\* (setSimulationResults(null)): the variant that C29 must tell apart from
\* the code.
OnSubmitRejectedClearing ==
  /\ calls[Form].pc = "rejected"
  /\ results' = Null
  /\ isRunning' = FALSE
  /\ submitDisabled' = isRunning'
  /\ view' = Render(results', selectedSimulation)
  /\ calls' = [calls EXCEPT ![Form] = IdleCall]
  /\ UNCHANGED <<server, selectedSimulation, pyodideInstance, engines>>

\* OnSubmitRejected with setIsRunning(false) as the last statement of the
\* try block and no finally: the variant that C28 must tell apart from the
\* code.
OnSubmitRejectedNoFinally ==
  /\ calls[Form].pc = "rejected"
  /\ isRunning' = isRunning
  /\ submitDisabled' = isRunning'
  /\ calls' = [calls EXCEPT ![Form] = IdleCall]
  /\ UNCHANGED <<server, results, selectedSimulation, view, pyodideInstance,
                 engines>>

\* part_003 lines 88-92: the await of onSubmit rejects, the error is
\* logged, finally resets isRunning
OnSubmitRejected ==
  /\ calls[Form].pc = "rejected"
  /\ isRunning' = FALSE
  /\ submitDisabled' = isRunning'
  /\ calls' = [calls EXCEPT ![Form] = IdleCall]
  /\ UNCHANGED <<server, results, selectedSimulation, view, pyodideInstance,
                 engines>>

\* simulation-results.tsx lines 191-205 and dashboard-shell.tsx line 16:
\* one of the items 0..numSimulations - 1 of the select is chosen
Select(i) ==
  /\ view = "summary"
  /\ i \in 0..(Len(results[1].simulations) - 1)
  /\ selectedSimulation' = i
  /\ view' = Render(results, selectedSimulation')
  /\ UNCHANGED <<server, results, isRunning, submitDisabled, pyodideInstance,
                 engines, calls>>

\* The dashboard in the browser: no request is posted to the handler
InitDash == Start({})

\* What the browser does by itself once onSubmit has called the engine
Settle ==
  \/ LoadEngine(Form)
  \/ LoadPackages(Form)
  \/ LoadFails(Form)
  \/ RunScript(Form)
  \/ ScriptFails(Form)
  \/ OnSubmitResolved
  \/ OnSubmitRejected

NextDash ==
  \/ \E v \in FormValues : Submit(v)
  \/ \E i \in 0..(MaxRuns - 1) : Select(i)
  \/ Settle

SpecDash == InitDash /\ [][NextDash]_vars

\* The promises that onSubmit awaits settle and the event loop runs the
\* continuations
SpecDashFair == SpecDash /\ WF_vars(Settle)

\* The exported function under concurrent calls of its clients
NextEngine ==
  \/ \E c \in Clients, v \in FormValues : Call(c, v)
  \/ \E c \in Clients : LoadEngine(c)
  \/ \E c \in Clients : LoadPackages(c)
  \/ \E c \in Clients : LoadFails(c)
  \/ \E c \in Clients : RunScript(c)
  \/ \E c \in Clients : ScriptFails(c)
  \/ \E c \in Clients : Return(c)

SpecEngine == InitDash /\ [][NextEngine]_vars

\* ------------------------------------------------------------------------
\* The properties
\* ------------------------------------------------------------------------

\* The state of the generator after k more calls of seededRandom
RECURSIVE LcgIter(_, _)
LcgIter(s, k) == IF k <= 0 THEN s ELSE LcgIter(LcgNext(s), k - 1)

\* The handler is between two requests and has answered the last one
Answered == pc = "idle" /\ response # <<>> /\ firstCall # <<>>

\* C1: two calls with the same parameters return the same results, whatever
\* calls were made before them: every answer to the parameters of the
\* first request equals the answer the first request got.
C1_SameParamsSameResults ==
  (Answered /\ firstCall[1].params = params)
    => response[1] = firstCall[1].response

\* A request with the parameters of the first one has been answered with
\* runs, after a request with other parameters was handled in between.
C1_Witness ==
  /\ Answered
  /\ firstCall[1].params = params
  /\ otherCalls
  /\ response[1].status = 200
  /\ Len(response[1].simulations) = MaxSims

\* C2: the generator is created once per call from randomSeed and is never
\* seeded again: entering the handler sets the state to randomSeed, and
\* every later step of the call, the pushes that end a run included, leaves
\* the state where the draws of that step take it.
C2_OneStreamPerCall ==
  [][/\ (pc = "idle" /\ pc' # "idle")
          => (seedState' = params'.randomSeed /\ draws' = 0)
     /\ (pc # "idle")
          => (draws' >= draws
              /\ seedState' = LcgIter(seedState, draws' - draws))]_vars

\* The second run of a call is drawing its path, on the stream that the
\* first run left.
C2_Witness ==
  /\ sim >= 1
  /\ pc = "step"
  /\ t > 1
  /\ draws > 0
  /\ seedState = LcgIter(params.randomSeed, draws)

\* C3: for every integer seed, negative ones included, the state after a
\* draw lies in [0, 233280), so that the uniform value lies in [0, 1).
C3_StateInRange ==
  draws > 0 => (0 <= seedState /\ seedState < Modulus)

\* Some draw of the step returns zero
ZeroDrawn == \E j \in 1..(draws' - draws) : LcgIter(seedState, j) = 0

\* C4: every normal variate costs exactly two uniform draws when no draw
\* is zero: generating the n trend, volatility or shock components advances
\* the stream by 2n, and one step of a path advances it by 2.
C4_TwoDrawsPerNormal ==
  [][~ZeroDrawn =>
       /\ (pc \in {"loop", "volatility", "shocks"} /\ pc' # "idle")
            => draws' - draws = 2 * params.numCurrencies
       /\ (pc = "step" /\ t' = t + 1)
            => draws' - draws = 2]_vars

AtLeastFloor(x) == Ge(x, PriceFloor)
AllAtLeastFloor(path) == \A i \in 1..Len(path) : AtLeastFloor(path[i])

\* C5: for every parameter set within the ranges of the form, every price
\* is at least 0.01: the initial price and the later prices of the path
\* under construction, and the sampled prices of the paths and runs done.
C5_PricesAtLeastFloor ==
  RangeValidated(params) =>
    /\ AllAtLeastFloor(pricePath)
    /\ \A c \in 1..Len(prices) : AllAtLeastFloor(prices[c])
    /\ \A k \in 1..Len(simulations) :
         \A c \in 1..Len(simulations[k].prices) :
           AllAtLeastFloor(simulations[k].prices[c])

\* C6: for every numObservations greater than extremeEventDuration, a run
\* with an extreme event reports an index with
\* 0 <= index < numObservations - extremeEventDuration, and a run without
\* one reports null.
C6_EventIndexInRange ==
  params.numObservations > params.extremeEventDuration =>
    \A k \in 1..Len(simulations) :
      IF simulations[k].extremeEvent
      THEN /\ Len(simulations[k].extremeEventIndex) = 1
           /\ 0 <= simulations[k].extremeEventIndex[1]
           /\ simulations[k].extremeEventIndex[1]
                < params.numObservations - params.extremeEventDuration
      ELSE simulations[k].extremeEventIndex = Null

\* C7: the metrics of a run are computed on the series of numObservations
\* points, and the final price they use is that of the last simulated step.
C7_MetricsOnFullSeries ==
  \A k \in 1..Len(simulations) :
    /\ simulations[k].metricsLength = params.numObservations
    /\ simulations[k].metricsLastStep = Some(params.numObservations - 1)

\* The parameter sets that the simulation has to reject
Invalid(p) ==
  \/ p.numCurrencies < 1
  \/ p.extremeEventDuration >= p.numObservations
  \/ ~IsFin(p.extremeEventProbability)
  \/ p.extremeEventProbability.v < 0
  \/ p.extremeEventProbability.v > Scale

\* C8: a call with an asset count below one, an event duration that is not
\* shorter than the series, a probability outside [0, 1] or a missing
\* field draws no random number, produces no run and is not answered with
\* a result.
C8_InvalidRejectedBeforeAnyDraw ==
  Invalid(params) =>
    /\ draws = 0
    /\ simulations = <<>>
    /\ (response # <<>> => response[1].status # 200)

\* C9: with two observations or more the realized volatility of every run
\* is a number that is not negative, and a call with fewer than two
\* observations is not answered with a result.
C9_RealizedVolatilityDefined ==
  /\ params.numObservations >= 2 =>
       \A k \in 1..Len(simulations) :
         /\ IsFin(simulations[k].realizedVolatility)
         /\ simulations[k].realizedVolatility.v >= 0
  /\ (params.numObservations < 2 /\ response # <<>>)
       => response[1].status # 200

\* C10: in every run trends, volatilities and effectiveTrends have one
\* entry per currency, and prices has one row per currency.
C10_OneEntryPerCurrency ==
  \A k \in 1..Len(simulations) :
    /\ Len(simulations[k].trends) = params.numCurrencies
    /\ Len(simulations[k].volatilities) = params.numCurrencies
    /\ Len(simulations[k].effectiveTrends) = params.numCurrencies
    /\ Len(simulations[k].prices) = params.numCurrencies

\* A run with the largest number of currencies has been pushed
C10_Witness ==
  /\ Len(simulations) >= 1
  /\ params.numCurrencies = MaxCurrencies
  /\ Len(simulations[1].prices) = MaxCurrencies

\* C11: for every asset the returned price series has at most
\* min(500, numObservations) points, in the paths sampled so far and in
\* every run pushed.
C11_DownsampleBound ==
  /\ \A c \in 1..Len(prices) :
       Len(prices[c]) <= Min(SampleTarget, params.numObservations)
  /\ \A k \in 1..Len(simulations) :
       \A c \in 1..Len(simulations[k].prices) :
         Len(simulations[k].prices[c])
           <= Min(SampleTarget, params.numObservations)

\* A run of more than 500 observations has been pushed with a series of
\* 500 points
C11_Witness ==
  /\ params.numObservations > SampleTarget
  /\ Len(simulations) >= 1
  /\ Len(simulations[1].prices) >= 1
  /\ Len(simulations[1].prices[1]) = SampleTarget

\* The request in the handler makes generateMultivariateNormal throw in a
\* run: it asks for runs and for no currency
Throws(p) == p.numSimulations >= 1 /\ p.numCurrencies < 1

C13_RunsInOrderWithParams ==
  [][/\ (pc = "currency" /\ pc' = "loop")
          => /\ Len(simulations) = sim
             /\ Len(simulations') = sim + 1
             /\ SubSeq(simulations', 1, sim) = simulations
     /\ (pc # "idle" /\ pc' = "idle" /\ response'[1].status = 200
           /\ params.numSimulations >= 1)
          => /\ Len(response'[1].simulations) = params.numSimulations
             /\ response'[1].simulations = simulations
             /\ response'[1].params = <<params>>]_vars

\* A request for the largest number of runs has been answered with that
\* many runs, the first of which differs from the second
C13_Witness ==
  /\ Answered
  /\ response[1].status = 200
  /\ params.numSimulations = MaxSims
  /\ Len(response[1].simulations) = MaxSims
  /\ response[1].simulations[1] # response[1].simulations[2]
  /\ response[1].params = <<params>>

\* C14: with three currencies and trendCovariance = trendVariance the three
\* trend components are identical, whatever the second and third entries
\* of z are.
C14_MaximalCorrelationIdentical ==
  (Len(trendComponents) = 3 /\ params.trendCovariance = params.trendVariance)
    => /\ trendComponents[1] = trendComponents[2]
       /\ trendComponents[2] = trendComponents[3]

\* a and b are numbers no further apart than tol units of 1/Scale: equal up
\* to the rounding of the arithmetic
Near(a, b, tol) == IsFin(a) /\ IsFin(b) /\ IAbs(a.v - b.v) <= tol

\* The parameters inject no randomness into the trend and no volatility
DegenerateParams(p) ==
  /\ p.trendVariance = Fin(0)
  /\ p.trendCovariance = Fin(0)
  /\ p.baseVolatility = Fin(0)

\* The run is flat: trend 0, volatility 0, every price at the initial
\* price, realized volatility 0 and effective trends 0 (up to rounding)
FlatRun(s) ==
  /\ \A c \in 1..Len(s.trends) : s.trends[c] = Fin(0)
  /\ \A c \in 1..Len(s.volatilities) : s.volatilities[c] = Fin(0)
  /\ \A c \in 1..Len(s.prices) : \A i \in 1..Len(s.prices[c]) :
       Near(s.prices[c][i], s.prices[c][1], Scale \div 10)
  /\ s.realizedVolatility = Fin(0)
  /\ \A c \in 1..Len(s.effectiveTrends) :
       Near(s.effectiveTrends[c], Fin(0), Scale \div 20)

\* C15: a run with no extreme event, no trend and no volatility is flat at
\* its initial price, with realizedVolatility 0 and effectiveTrend 0, and
\* with 10 observations its returned series has 10 points.
C15_DegeneratePathFlat ==
  DegenerateParams(params) =>
    \A k \in 1..Len(simulations) :
      ~simulations[k].extremeEvent =>
        /\ FlatRun(simulations[k])
        /\ \A c \in 1..Len(simulations[k].prices) :
             params.numObservations = 10
               => Len(simulations[k].prices[c]) = 10

\* The handler has generated the trend components of the run in progress
TrendGenerated == pc \in {"volatility", "event", "shocks", "currency", "step"}

\* The request asks for two currencies or more with
\* trendCovariance > trendVariance
CovarianceExceeds(p) ==
  p.numCurrencies >= 2 /\ Lt(p.trendVariance, p.trendCovariance)

\* C16: when covariance > variance the diagonal of L below its first row
\* is the square root of 0, not of a negative number; the call returns a
\* vector of numCurrencies entries and the request is not answered with
\* an error.
C16_CovarianceAboveVarianceClamped ==
  CovarianceExceeds(params) =>
    /\ \A i \in 1..(params.numCurrencies - 1) :
         CholeskyL(params.numCurrencies, params.trendVariance,
                   params.trendCovariance)[i][i] = Fin(0)
    /\ TrendGenerated => Len(trendComponents) = params.numCurrencies
    /\ (Answered => response[1].status = 200)

\* A request with trendCovariance > trendVariance has been answered with
\* its run of two currencies
C16_Witness ==
  /\ CovarianceExceeds(params)
  /\ Answered
  /\ response[1].status = 200
  /\ Len(response[1].simulations) >= 1
  /\ Len(response[1].simulations[1].trends) = params.numCurrencies

\* The entry (i, j) of L * L^T: the sum of L[i][k] * L[j][k] for k = 0..upTo
RECURSIVE RowProduct(_, _, _, _)
RowProduct(L, i, j, upTo) ==
  IF upTo < 0 THEN Fin(0)
  ELSE Add(RowProduct(L, i, j, upTo - 1), Mul(L[i][upTo], L[j][upTo]))

\* L * L^T is the matrix with variance on the diagonal and covariance
\* elsewhere, up to the rounding of the square roots
Factorizes(L, n, variance, covariance) ==
  \A i \in 0..(n - 1) : \A j \in 0..(n - 1) :
    Near(RowProduct(L, i, j, n - 1),
         IF i = j THEN variance ELSE covariance, 2)

\* C17: for two currencies or more and trendVariance >= trendCovariance >= 0
\* the factor L of the trend components satisfies L * L^T = the covariance
\* matrix, row 0 and column 0 included.
C17_FactorReproducesCovariance ==
  (/\ TrendGenerated
   /\ params.numCurrencies >= 2
   /\ Ge(params.trendVariance, params.trendCovariance)
   /\ Ge(params.trendCovariance, Fin(0)))
    => Factorizes(CholeskyL(params.numCurrencies, params.trendVariance,
                            params.trendCovariance),
                  params.numCurrencies, params.trendVariance,
                  params.trendCovariance)

\* np.round of num / den for num >= 0, den > 0: to the nearest integer,
\* halves to the even one
RoundHalfEven(num, den) ==
  LET q == num \div den
      r == num % den
  IN  IF 2 * r < den THEN q
      ELSE IF 2 * r > den THEN q + 1
      ELSE IF q % 2 = 0 THEN q ELSE q + 1

\* The positions that samplePath keeps of a series of n steps 0..n-1
SelectedSteps(n, targetLength) ==
  samplePath([s \in 1..n |-> s - 1], targetLength)

\* C18: when the series is longer than the target, the positions kept are
\* round(i * length / target) for i in [0, target), they are strictly
\* increasing and each is below the length of the series.
C18_RoundedPositions ==
  LET Rounded(sel, n, target) ==
        /\ \A i \in 1..target :
             sel[i] = RoundHalfEven((i - 1) * n, target)
        /\ \A i \in 1..(Len(sel) - 1) : sel[i] < sel[i + 1]
        /\ \A i \in 1..Len(sel) : sel[i] < n
      Sampled(n, target) ==
        n > target => Rounded(SelectedSteps(n, target), n, target)
  IN  Len(prices) >= 1
        => Sampled(params.numObservations,
                   Min(SampleTarget, params.numObservations))

\* The loop over t of the path under construction, or of the path pushed
\* last, has ended
PathDone ==
  \/ (pc = "step" /\ t >= params.numObservations)
  \/ (pc = "currency" /\ Len(prices) >= 1)

\* C19: in a run with an extreme event the shock term is added at the
\* steps start, ..., start + duration - 1 of every path, duration steps in
\* all with the step of the onset included, and at no other step; the
\* progress of each of these steps lies in [0, 1).
C19_ShockWindow ==
  (/\ extremeEvent
   /\ PathDone
   /\ params.numObservations > params.extremeEventDuration)
    => /\ {x.t : x \in shocked}
            = extremeEventStart
                ..(extremeEventStart + params.extremeEventDuration - 1)
       /\ Cardinality(shocked) = params.extremeEventDuration
       /\ \A x \in shocked :
            Ge(x.progress, Fin(0)) /\ Lt(x.progress, Num(1))

\* C20: the price stored at a step is exp of the log-price that the next
\* step continues from, also when the floor of 0.01 has been applied.
\* Entry i of the two paths is step i - 1; step 0 is the initial price.
C20_FloorFeedsNextStep ==
  pc = "step" =>
    \A i \in 2..Len(pricePath) : pricePath[i] = Exp(logPricePath[i])

\* C21: in every run one call of seededRandom decides the extreme event for
\* all currencies; the start index is drawn (a second call) exactly when the
\* decision is true, and once the paths of the run are under construction
\* generateMultivariateNormal has been called three times in a run with an
\* event and twice in a run without.
C21_EventDecidedOnce ==
  [][/\ (pc = "event" =>
           draws' = draws + (IF extremeEvent' THEN 2 ELSE 1))
     /\ (pc' \in {"currency", "step"} =>
           /\ correlatedCalls' = (IF extremeEvent' THEN 3 ELSE 2)
           /\ (extremeEventShocks' # <<>>) = extremeEvent')]_vars

\* A run with an event and a run without have both been pushed
C21_Witness ==
  /\ pc = "loop"
  /\ Len(simulations) = 2
  /\ simulations[1].extremeEvent # simulations[2].extremeEvent
  /\ correlatedCalls \in {2, 3}

\* The annualized return with yearsElapsed = seriesLength / periodsPerYear,
\* seriesLength being the number of points of the series
TrendOverPoints(series) ==
  IF Len(series) = 0 THEN NaN
  ELSE LET totalReturn == Sub(Div(series[Len(series)], series[1]), Num(1))
           exponent    == Div(Num(PeriodsPerYear), Num(Len(series)))
       IN  Sub(Pow(Add(Num(1), totalReturn), exponent), Num(1))

\* C22: every entry of effectiveTrends of every pushed run is the return of
\* its series annualized over seriesLength / periodsPerYear years, where
\* seriesLength counts the points of the series and periodsPerYear is the
\* constant of dt.
C22_TrendOverPoints ==
  \A i \in 1..Len(simulations) :
    \A c \in 1..Len(simulations[i].prices) :
      simulations[i].effectiveTrends[c]
        = TrendOverPoints(simulations[i].prices[c])

\* python-simulation.ts lines 178-181: calculate_realized_volatility of the
\* Python engine.  np.std is called without ddof, which divides the sum of
\* squared deviations by the number of log-returns.
MinutesPerYear == 525600         \* 365 * 24 * 60
calculate_realized_volatility(series) ==
  LET n == IF Len(series) = 0 THEN 0 ELSE Len(series) - 1
      Std(logReturns, mean) ==
        SqrtOfSquares(
          Div(SumSeq([i \in 1..n |-> Square(Sub(logReturns[i], mean))], 1, n),
              Num(n)))
      StdOf(logReturns) ==
        Std(logReturns, Div(SumSeq(logReturns, 1, n), Num(n)))
  IN  Mul(StdOf([i \in 1..n |-> Sub(Ln(series[i + 1]), Ln(series[i]))]),
          Sqrt(Num(MinutesPerYear)))

\* The sample standard deviation of the first differences of a series of
\* log prices, annualized: the sum of squared deviations is divided by the
\* number of log-returns less one
SampleVolatility(logSeries, periods) ==
  LET n == IF Len(logSeries) = 0 THEN 0 ELSE Len(logSeries) - 1
      Deviation(logReturns, mean) ==
        SqrtOfSquares(
          Div(SumSeq([i \in 1..n |-> Square(Sub(logReturns[i], mean))], 1, n),
              Num(n - 1)))
      DeviationOf(logReturns) ==
        Deviation(logReturns, Div(SumSeq(logReturns, 1, n), Num(n)))
  IN  Mul(DeviationOf([i \in 1..n |-> Sub(logSeries[i + 1], logSeries[i])]),
          Sqrt(Num(periods)))

\* C23: on the series of the first currency of a pushed run, the realized
\* volatility of route.ts and the realized volatility of the Python engine
\* are both the annualized sample standard deviation (denominator: number of
\* log-returns - 1) of the log-returns.
C23_SampleDeviationEverywhere ==
  (pc = "loop" /\ Len(simulations) > 0 /\ Len(logPrices) > 0) =>
     /\ simulations[Len(simulations)].realizedVolatility
          = Mul(SampleVolatility(logPrices[1], PeriodsPerYear), Num(100))
     /\ calculate_realized_volatility(prices[1])
          = SampleVolatility([i \in 1..Len(prices[1]) |-> Ln(prices[1][i])],
                             MinutesPerYear)

\* C24: every component of the volatility vector of every run, as used for
\* sigma and as stored in the pushed run, is >= 0.
C24_VolatilityNonNegative ==
  /\ \A c \in 1..Len(volatilityComponents) :
       Ge(volatilityComponents[c], Fin(0))
  /\ \A i \in 1..Len(simulations) :
       \A c \in 1..Len(simulations[i].volatilities) :
         Ge(simulations[i].volatilities[c], Fin(0))

\* C25: for a non-negative seed every normal variate is produced after at
\* most 3 calls of seededRandom: the variate of one step of a path, and each
\* of the numCurrencies variates of a call of generateMultivariateNormal.
C25_AtMostThreeDrawsPerVariate ==
  [][params.randomSeed >= 0 =>
       /\ (pc = "step" /\ t' = t + 1 => draws' - draws <= 3)
       /\ (pc \in {"loop", "volatility", "shocks"} /\ draws' > draws =>
             draws' - draws <= 3 * params.numCurrencies)]_vars

\* C26: for the path under construction and every target k >= 1, sampling
\* the sampled path again with the same target returns it unchanged, and a
\* path of at most k elements is returned as it is.
C26_SampleIdempotent ==
  \A k \in 1..(Len(pricePath) + 1) :
    /\ samplePath(samplePath(pricePath, k), k) = samplePath(pricePath, k)
    /\ (Len(pricePath) <= k => samplePath(pricePath, k) = pricePath)

\* A path for which some target shortens it and some target does not
C26_Witness ==
  /\ Len(pricePath) >= 3
  /\ samplePath(pricePath, 2) # pricePath
  /\ Len(samplePath(pricePath, 2)) = 2
  /\ samplePath(pricePath, Len(pricePath)) = pricePath

\* C27: whenever results are stored, selectedSimulation is the index of an
\* existing run, and the summary has not read a field of an undefined run.
C27_SelectionInRange ==
  results # Null =>
    /\ 0 <= selectedSimulation
    /\ selectedSimulation < Len(results[1].simulations)
    /\ view # "error"

\* C28: every submission sets isRunning, isRunning is eventually false
\* again whether the call resolves or rejects, and the button is disabled
\* exactly while isRunning is true.
C28_RunningUntilSettled ==
  /\ [][(calls[Form].pc = "idle" /\ calls'[Form].pc # "idle") =>
           isRunning']_vars
  /\ [](submitDisabled = isRunning)
  /\ [](calls[Form].pc # "idle" => isRunning)
  /\ (isRunning ~> ~isRunning)

\* A submission whose call was rejected has been settled
C28_Witness ==
  /\ ~isRunning
  /\ ~submitDisabled
  /\ calls[Form].pc = "idle"
  /\ engines > 0
  /\ pyodideInstance = 0

\* C29: a step that ends a rejected call leaves the store as it is, and
\* the store changes only in a step that ends a resolved call, to the
\* results of that call.
C29_FailureKeepsResults ==
  [][/\ (calls[Form].pc = "rejected" /\ calls'[Form].pc = "idle" =>
           results' = results)
     /\ (results' # results =>
           /\ calls[Form].pc = "resolved"
           /\ results' = calls[Form].result)]_vars

\* Results are stored and the call of a later submission has been rejected
C29_Witness ==
  /\ results # Null
  /\ calls[Form].pc = "rejected"

\* Callers that have received an engine from loadPyodide
Holding(c) == calls[c].pc \in {"ready", "resolved"}

\* C30: under any interleaving of the calls of the clients at most one
\* engine is created, and all callers that hold an engine hold the same one.
C30_OneEngine ==
  /\ engines <= 1
  /\ \A c, d \in Clients :
       Holding(c) /\ Holding(d) => calls[c].pyodide = calls[d].pyodide
====
